---------------------------- MODULE Spec2Model ----------------------------
(* Model of the Curlicue operator of curlicue.py: the generation loop of   *)
(* Curlicue.action_common, its two fault paths and the hand-over of the     *)
(* generated mesh to the host.                                              *)
(*                                                                          *)
(* Numbers.  Python floats are modelled by exact rationals [n, d] in lowest *)
(* terms, so rounding is not modelled.  Angles are kept in units of pi.     *)
(* radius_ratio ranges over 0 and powers of two, written [zero, lg] for 0   *)
(* or 2^lg; a radius is a value c * 2^lg with rational c and lg, which is   *)
(* exactly what radius * radius_ratio ** x evaluates to.                    *)
EXTENDS Integers, Sequences, FiniteSets

VARIABLES
    self,       \* the operator's properties (lines 74-132)
    redoing,    \* the argument execute / invoke pass to action_common
    pc,         \* "idle", "loop", "except", "done"
    i,          \* loop variable of line 152; -1 before the first iteration
    angle,      \* local of line 153, in units of pi
    radius,     \* local of lines 155-167
    width,      \* local of lines 171-176
    pt1,        \* local of lines 184-193
    pt2,        \* local of lines 194-203
    vertices,   \* local list of line 150
    faces,      \* local list of line 151
    status,     \* value returned by action_common; "none" until it returns
    raised,     \* exception that left action_common uncaught; "none" otherwise
    reports,    \* what self.report was called with
    meshes,     \* bpy.data.meshes: meshes created, with their from_pydata data
    objects     \* objects added to the scene by object_data_add

vars == <<self, redoing, pc, i, angle, radius, width, pt1, pt2, vertices,
          faces, status, raised, reports, meshes, objects>>

-----------------------------------------------------------------------------
(* Bounds *)

MaxPoints == 4

-----------------------------------------------------------------------------
(* Exact rational arithmetic standing for Python's float operators *)

Abs(x) == IF x < 0 THEN -x ELSE x

RECURSIVE GCD(_, _)
GCD(a, b) == IF b = 0 THEN a ELSE GCD(b, a % b)

Rat(num, den) ==
    LET s == IF den < 0 THEN -1 ELSE 1
        g == GCD(Abs(num), Abs(den))
    IN  [n |-> (s * num) \div g, d |-> (s * den) \div g]

FromInt(k) == [n |-> k, d |-> 1]

Zero == FromInt(0)

One == FromInt(1)

RAdd(a, b) == Rat(a.n * b.d + b.n * a.d, a.d * b.d)

RSub(a, b) == Rat(a.n * b.d - b.n * a.d, a.d * b.d)

RMul(a, b) == Rat(a.n * b.n, a.d * b.d)

RDiv(a, b) == Rat(a.n * b.d, a.d * b.n)

RLt(a, b) == a.n * b.d < b.n * a.d

RLe(a, b) == a.n * b.d <= b.n * a.d

-----------------------------------------------------------------------------
(* The property values the host can hand to the operator (lines 74-132) *)

CurveTypes == {"linear", "log"}

\* a value outside the declared enum, as a mis-configured host could supply
OtherCurveTypes == {"cubic"}

NrPointsValues == 1 .. MaxPoints

NrTurnsValues == {FromInt(-2), Zero, One, FromInt(3)}

RadiusValues == {Rat(1, 10), FromInt(2)}

InnerTaperValues == {Zero, Rat(1, 5), One}

OuterTaperValues == {Zero, One}

LinearOffsetValues == {Zero, Rat(1, 2)}

\* 0, 1/2, 1, 2
RadiusRatioValues ==
    {[zero |-> TRUE, lg |-> Zero], [zero |-> FALSE, lg |-> FromInt(-1)],
     [zero |-> FALSE, lg |-> Zero], [zero |-> FALSE, lg |-> One]}

Properties ==
    [curve_type : CurveTypes \cup OtherCurveTypes,
     nr_points : NrPointsValues,
     nr_turns : NrTurnsValues,
     radius : RadiusValues,
     inner_taper : InnerTaperValues,
     outer_taper : OuterTaperValues,
     linear_offset : LinearOffsetValues,
     radius_ratio : RadiusRatioValues]

-----------------------------------------------------------------------------
(* The body of the loop, lines 153-207 *)

\* Fraction taken at the end of the step instead of its start
FractionOffByOne(s, k) == Rat(k + 1, s.nr_points)

\* i / self.nr_points (lines 153, 157, 173, 175)
Fraction(s, k) == Rat(k, s.nr_points)

\* line 153, in units of pi
AngleAt(s, k) == RMul(RMul(Fraction(s, k), s.nr_turns), FromInt(2))

\* float ** float: 0.0 ** x raises ZeroDivisionError for x < 0, is 1.0 for
\* x = 0 and 0.0 for x > 0; (2^lg) ** x is 2^(lg * x)
Pow(base, x) ==
    IF base.zero
    THEN IF RLt(x, Zero) THEN [fault |-> TRUE, zero |-> FALSE, lg |-> Zero]
         ELSE IF x = Zero THEN [fault |-> FALSE, zero |-> FALSE, lg |-> Zero]
         ELSE [fault |-> FALSE, zero |-> TRUE, lg |-> Zero]
    ELSE [fault |-> FALSE, zero |-> FALSE, lg |-> RMul(base.lg, x)]

\* ExponentAt without the shift by nr_turns
ExponentAtUnshifted(s, a) == RDiv(a, FromInt(2))

\* line 166: angle / (2 * math.pi) - self.nr_turns
ExponentAt(s, a) == RSub(RDiv(a, FromInt(2)), s.nr_turns)

NoRadius == [c |-> Zero, lg |-> Zero]

\* RadiusAt with the linear radius scaled by radius_ratio as well
RadiusAtBothActive(s, k, a) ==
    IF s.curve_type = "linear"
    THEN IF s.radius_ratio.zero
         THEN [raise |-> "none", val |-> NoRadius]
         ELSE [raise |-> "none",
               val |-> [c |-> RAdd(RMul(Fraction(s, k),
                                        RSub(s.radius, s.linear_offset)),
                                   s.linear_offset),
                        lg |-> s.radius_ratio.lg]]
    ELSE IF s.curve_type = "log"
    THEN LET p == Pow(s.radius_ratio, ExponentAt(s, a))
         IN  IF p.fault
             THEN [raise |-> "ZeroDivisionError", val |-> NoRadius]
             ELSE IF p.zero
             THEN [raise |-> "none", val |-> NoRadius]
             ELSE [raise |-> "none", val |-> [c |-> s.radius, lg |-> p.lg]]
    ELSE [raise |-> "Failure", val |-> NoRadius]

\* RadiusAt with the final else falling back to the linear formula
RadiusAtDefaultLinear(s, k, a) ==
    IF s.curve_type = "log"
    THEN LET p == Pow(s.radius_ratio, ExponentAt(s, a))
         IN  IF p.fault
             THEN [raise |-> "ZeroDivisionError", val |-> NoRadius]
             ELSE IF p.zero
             THEN [raise |-> "none", val |-> NoRadius]
             ELSE [raise |-> "none", val |-> [c |-> s.radius, lg |-> p.lg]]
    ELSE [raise |-> "none",
          val |-> [c |-> RAdd(RMul(Fraction(s, k),
                                   RSub(s.radius, s.linear_offset)),
                              s.linear_offset),
                   lg |-> Zero]]

\* lines 154-170: the radius of the sample, or the exception raised
RadiusAt(s, k, a) ==
    IF s.curve_type = "linear"
    THEN [raise |-> "none",
          val |-> [c |-> RAdd(RMul(Fraction(s, k),
                                   RSub(s.radius, s.linear_offset)),
                              s.linear_offset),
                   lg |-> Zero]]
    ELSE IF s.curve_type = "log"
    THEN LET p == Pow(s.radius_ratio, ExponentAt(s, a))
         IN  IF p.fault
             THEN [raise |-> "ZeroDivisionError", val |-> NoRadius]
             ELSE IF p.zero
             THEN [raise |-> "none", val |-> NoRadius]
             ELSE [raise |-> "none", val |-> [c |-> s.radius, lg |-> p.lg]]
    ELSE [raise |-> "Failure", val |-> NoRadius]

\* WidthAt with the two tapers exchanged
WidthAtSwapped(s, k) ==
    RAdd(RDiv(RMul(s.inner_taper, FromInt(k)), FromInt(s.nr_points)),
         RMul(s.outer_taper, RSub(One, Fraction(s, k))))

\* lines 171-176
WidthAt(s, k) ==
    RAdd(RDiv(RMul(s.outer_taper, FromInt(k)), FromInt(s.nr_points)),
         RMul(s.inner_taper, RSub(One, Fraction(s, k))))

\* line 183, in units of pi
Orient == Rat(1, 2)

\* cosine and sine of q * pi for q a multiple of 1/2
CosPi(q) ==
    LET h == ((q.n * 2) \div q.d) % 4
    IN  IF h = 0 THEN 1 ELSE IF h = 2 THEN -1 ELSE 0

SinPi(q) ==
    LET h == ((q.n * 2) \div q.d) % 4
    IN  IF h = 1 THEN 1 ELSE IF h = 3 THEN -1 ELSE 0

\* lines 177-182: Rotation(angle) @ Translation((radius, 0, 0)); the image of
\* the origin is the point at polar position (radius, angle)
ToMidpoint(a, r) == [angle |-> a, radius |-> r]

\* lines 184-203: to_midpoint @ Rotation(rot) @ Translation((half, 0, 0)) @
\* origin, a point written in the frame of to_midpoint: the point is
\* Rotation(angle) applied to (radius + dx, dy, 0)
EdgePoint(mid, rot, half) ==
    [angle |-> mid.angle, radius |-> mid.radius,
     dx |-> RMul(FromInt(CosPi(rot)), half),
     dy |-> RMul(FromInt(SinPi(rot)), half)]

\* line 184-193
Pt1(mid, w) == EdgePoint(mid, RAdd(Orient, Rat(1, 2)), RDiv(w, FromInt(2)))

\* line 194-203
Pt2(mid, w) == EdgePoint(mid, RSub(Orient, Rat(1, 2)), RDiv(w, FromInt(2)))

\* the image of the origin under to_midpoint alone
MidPoint(mid) == EdgePoint(mid, Zero, Zero)

\* FaceFor with the last two indices in list order
FaceForUnswapped(n) == <<n - 4, n - 3, n - 2, n - 1>>

\* line 206, n being len(vertices)
FaceFor(n) == <<n - 4, n - 3, n - 1, n - 2>>

\* line 204
ExtendVertices(vs, p1, p2) == vs \o <<p1, p2>>

\* lines 205-207, vs being the vertex list after line 204
ExtendFaces(vs, fs) ==
    IF Len(vs) >= 4 THEN Append(fs, FaceFor(Len(vs))) ELSE fs

FailureMsg == "SHOULDN'T OCCUR: unrecognized curve type"

CurveName == "Curlicue"

\* lines 209-211
NewMesh(vs, fs) == [name |-> CurveName, vertices |-> vs, edges |-> <<>>,
                    faces |-> fs]

-----------------------------------------------------------------------------
(* The whole of action_common as a function of the properties, lines        *)
(* 147-221: the lists built, the status returned and the exception that     *)
(* escaped.                                                                  *)

RECURSIVE GenerateFrom(_, _, _, _)
GenerateFrom(s, k, vs, fs) ==
    IF k >= s.nr_points
    THEN [vertices |-> vs, faces |-> fs, status |-> "FINISHED",
          raised |-> "none", meshes |-> <<NewMesh(vs, fs)>>]
    ELSE LET a == AngleAt(s, k)
             r == RadiusAt(s, k, a)
             mid == ToMidpoint(a, r.val)
             w == WidthAt(s, k)
             nvs == ExtendVertices(vs, Pt1(mid, w), Pt2(mid, w))
         IN  IF r.raise = "Failure"
             THEN [vertices |-> vs, faces |-> fs, status |-> "CANCELLED",
                   raised |-> "none", meshes |-> <<>>]
             ELSE IF r.raise # "none"
             THEN [vertices |-> vs, faces |-> fs, status |-> "none",
                   raised |-> r.raise, meshes |-> <<>>]
             ELSE GenerateFrom(s, k + 1, nvs, ExtendFaces(nvs, fs))

Generate(s) == GenerateFrom(s, 0, <<>>, <<>>)

-----------------------------------------------------------------------------
(* State machine *)

NoPoint == [angle |-> Zero, radius |-> NoRadius, dx |-> Zero, dy |-> Zero]

Init ==
    /\ self \in Properties
    /\ redoing = FALSE
    /\ pc = "idle"
    /\ i = -1
    /\ angle = Zero
    /\ radius = NoRadius
    /\ width = Zero
    /\ pt1 = NoPoint
    /\ pt2 = NoPoint
    /\ vertices = <<>>
    /\ faces = <<>>
    /\ status = "none"
    /\ raised = "none"
    /\ reports = <<>>
    /\ meshes = <<>>
    /\ objects = <<>>

\* lines 147-151, entered with the given value of redoing
ActionCommon(r) ==
    /\ pc = "idle"
    /\ pc' = "loop"
    /\ redoing' = r
    /\ vertices' = <<>>
    /\ faces' = <<>>
    /\ UNCHANGED <<self, i, angle, radius, width, pt1, pt2, status, raised,
                   reports, meshes, objects>>

\* lines 223-226
Execute == ActionCommon(TRUE)

\* lines 228-231
Invoke == ActionCommon(FALSE)

\* one iteration of the loop that runs to its end, lines 152-208
LoopSample ==
    /\ pc = "loop"
    /\ i + 1 < self.nr_points
    /\ LET k == i + 1
           a == AngleAt(self, k)
           r == RadiusAt(self, k, a)
           mid == ToMidpoint(a, r.val)
           w == WidthAt(self, k)
           nvs == ExtendVertices(vertices, Pt1(mid, w), Pt2(mid, w))
       IN  /\ r.raise = "none"
           /\ i' = k
           /\ angle' = a
           /\ radius' = r.val
           /\ width' = w
           /\ pt1' = Pt1(mid, w)
           /\ pt2' = Pt2(mid, w)
           /\ vertices' = nvs
           /\ faces' = ExtendFaces(nvs, faces)
    /\ UNCHANGED <<self, redoing, pc, status, raised, reports, meshes, objects>>

\* an iteration that reaches line 169: Failure is raised and caught at 214
LoopRaiseFailure ==
    /\ pc = "loop"
    /\ i + 1 < self.nr_points
    /\ LET k == i + 1
           a == AngleAt(self, k)
       IN  /\ RadiusAt(self, k, a).raise = "Failure"
           /\ i' = k
           /\ angle' = a
    /\ pc' = "except"
    /\ UNCHANGED <<self, redoing, radius, width, pt1, pt2, vertices, faces,
                   status, raised, reports, meshes, objects>>

\* an iteration whose line 166 raises: no handler of action_common catches
\* it (line 214 catches Failure only), so it leaves action_common
LoopRaiseArithmetic ==
    /\ pc = "loop"
    /\ i + 1 < self.nr_points
    /\ LET k == i + 1
           a == AngleAt(self, k)
       IN  /\ RadiusAt(self, k, a).raise \notin {"none", "Failure"}
           /\ i' = k
           /\ angle' = a
           /\ raised' = RadiusAt(self, k, a).raise
    /\ pc' = "done"
    /\ UNCHANGED <<self, redoing, radius, width, pt1, pt2, vertices, faces,
                   status, reports, meshes, objects>>

\* the loop is exhausted: lines 209-213 and the return of line 219
CreateMesh ==
    /\ pc = "loop"
    /\ i + 1 >= self.nr_points
    /\ meshes' = Append(meshes, NewMesh(vertices, faces))
    /\ objects' = Append(objects, [name |-> CurveName, data |-> Len(meshes) + 1])
    /\ status' = "FINISHED"
    /\ pc' = "done"
    /\ UNCHANGED <<self, redoing, i, angle, radius, width, pt1, pt2, vertices,
                   faces, raised, reports>>

\* lines 214-217 and the return of line 219
HandleFailure ==
    /\ pc = "except"
    /\ reports' = Append(reports, [type |-> "ERROR", msg |-> FailureMsg])
    /\ status' = "CANCELLED"
    /\ pc' = "done"
    /\ UNCHANGED <<self, redoing, i, angle, radius, width, pt1, pt2, vertices,
                   faces, raised, meshes, objects>>

Next ==
    \/ Execute
    \/ Invoke
    \/ LoopSample
    \/ LoopRaiseFailure
    \/ LoopRaiseArithmetic
    \/ CreateMesh
    \/ HandleFailure

Spec == Init /\ [][Next]_vars

-----------------------------------------------------------------------------
(* Claims *)

Recognized == self.curve_type \in CurveTypes

Max(a, b) == IF a >= b THEN a ELSE b

RAbs(a) == [n |-> Abs(a.n), d |-> a.d]

RMin(a, b) == IF RLe(a, b) THEN a ELSE b

RMax(a, b) == IF RLe(a, b) THEN b ELSE a

\* the call has ended, by a return or by an exception that escaped
Ended == pc = "done"

\* sample i has been processed and the loop is still the current statement
SampleDone == pc = "loop" /\ i >= 0

\* C1: for every valid parameter set (nr_points >= 1, recognized curve type)
\* there are 2*(i+1) vertices and i faces after sample i, len(vertices) >= 4
\* exactly when i >= 1, and generation ends with 2*nr_points vertices and
\* max(0, nr_points - 1) faces.
C1_Counts ==
    Recognized =>
        /\ SampleDone =>
             /\ Len(vertices) = 2 * (i + 1)
             /\ Len(faces) = i
             /\ (Len(vertices) >= 4) <=> (i >= 1)
        /\ Ended =>
             /\ Len(vertices) = 2 * self.nr_points
             /\ Len(faces) = Max(0, self.nr_points - 1)

\* C2: the face appended while processing sample k (k >= 1) is
\* (2k-2, 2k-1, 2k+1, 2k), that is (previous edge1, previous edge2, current
\* edge2, current edge1); every face index is an index of the vertex list;
\* consecutive faces share exactly the two indices of the trailing edge of
\* the first, and non-adjacent faces share none.
FaceSet(f) == {f[1], f[2], f[3], f[4]}

C2_FaceStrip ==
    /\ \A k \in 1 .. Len(faces) :
         /\ faces[k] = <<2 * k - 2, 2 * k - 1, 2 * k + 1, 2 * k>>
         /\ \A j \in 1 .. 4 : faces[k][j] >= 0 /\ faces[k][j] < Len(vertices)
    /\ SampleDone /\ i >= 1 =>
         /\ Len(faces) = i
         /\ vertices[faces[i][4] + 1] = pt1
         /\ vertices[faces[i][3] + 1] = pt2
    /\ \A k \in 1 .. Len(faces), m \in 1 .. Len(faces) :
         /\ m = k + 1 =>
              /\ Cardinality(FaceSet(faces[k]) \cap FaceSet(faces[m])) = 2
              /\ {faces[k][3], faces[k][4]} = {faces[m][1], faces[m][2]}
              /\ vertices[faces[k][4] + 1] = vertices[faces[m][1] + 1]
              /\ vertices[faces[k][3] + 1] = vertices[faces[m][2] + 1]
         /\ m > k + 1 => FaceSet(faces[k]) \cap FaceSet(faces[m]) = {}

C2_Witness == Ended /\ Len(faces) = 3 /\ self.nr_points = 4

\* C3: with a curve type that is neither "linear" nor "log", Failure is
\* raised before any vertex or face is appended, no mesh is created or handed
\* to the host, the error is reported and the operator returns CANCELLED.
C3_UnrecognizedCurveType ==
    ~Recognized =>
        /\ vertices = <<>>
        /\ faces = <<>>
        /\ meshes = <<>>
        /\ objects = <<>>
        /\ raised = "none"
        /\ status # "FINISHED"
        /\ i <= 0
        /\ pc = "except" => reports = <<>> /\ status = "none"
        /\ Ended =>
             /\ status = "CANCELLED"
             /\ reports = <<[type |-> "ERROR", msg |-> FailureMsg]>>

C3_Witness == ~Recognized /\ Ended /\ status = "CANCELLED" /\ self.nr_points > 1

\* C4: for every parameter set within the declared minima and a recognized
\* curve type no exception escapes, and generation returns FINISHED with the
\* full mesh handed to the host.
C4_NoFault ==
    Recognized =>
        /\ raised = "none"
        /\ Ended =>
             /\ status = "FINISHED"
             /\ meshes = <<NewMesh(vertices, faces)>>
             /\ Len(vertices) = 2 * self.nr_points

\* C9: with inner_taper = outer_taper = 0 both edge points of every sample
\* coincide with the midpoint, and generation does not fault: it returns
\* 2*nr_points vertices and nr_points - 1 faces.
ZeroWidth == self.inner_taper = Zero /\ self.outer_taper = Zero

C9_ZeroWidth ==
    Recognized /\ ZeroWidth =>
        /\ i >= 0 /\ raised = "none" =>
             /\ pt1 = pt2
             /\ pt1 = MidPoint(ToMidpoint(angle, radius))
        /\ raised = "none"
        /\ Ended =>
             /\ status = "FINISHED"
             /\ Len(vertices) = 2 * self.nr_points
             /\ Len(faces) = self.nr_points - 1

-----------------------------------------------------------------------------
(* Per-sample values, read back from the vertex list: sample k contributed  *)
(* vertices 2k and 2k+1 (pt1 and pt2), each carrying the midpoint's radius  *)
(* and its own displacement of -width/2 or +width/2 from the midpoint.      *)

Processed == IF raised = "none" /\ pc \in {"loop", "done"} THEN 0 .. i ELSE {}

SampleRadius(k) == vertices[2 * k + 1].radius

SampleWidth(k) == RMul(FromInt(2), vertices[2 * k + 2].dx)

Linear == self.curve_type = "linear"

Log == self.curve_type = "log"

\* the last sample has been processed
LastSampleDone ==
    /\ pc \in {"loop", "done"}
    /\ raised = "none"
    /\ i = self.nr_points - 1

\* -nr_turns / nr_points
LastExponent == RDiv(RSub(Zero, self.nr_turns), FromInt(self.nr_points))

\* radius lies between self.radius / radius_ratio and self.radius *
\* radius_ratio (with radius_ratio = 0: at or above 0)
WithinOneStep ==
    IF self.radius_ratio.zero
    THEN RLe(Zero, radius.c)
    ELSE /\ radius.c = self.radius
         /\ RLe(RSub(Zero, RAbs(self.radius_ratio.lg)), radius.lg)
         /\ RLe(radius.lg, RAbs(self.radius_ratio.lg))

\* radius is self.radius * radius_ratio ** x
IsScaled(x) ==
    LET p == Pow(self.radius_ratio, x)
    IN  /\ ~p.fault
        /\ radius = IF p.zero THEN NoRadius
                    ELSE [c |-> self.radius, lg |-> p.lg]

EqualsRadius == radius = [c |-> self.radius, lg |-> Zero]

\* C5 as stated: for the logarithmic curve type and every valid parameter
\* set the radius of the last sample is radius * radius_ratio ^ e with
\* e = -nr_turns / nr_points and |e| <= 1, so it lies between
\* radius / radius_ratio and radius * radius_ratio, and it does not equal
\* radius (equality only in the unreached limit).
C5_Original ==
    Log /\ LastSampleDone =>
        /\ IsScaled(LastExponent)
        /\ RLe(RAbs(LastExponent), One)
        /\ WithinOneStep
        /\ ~EqualsRadius

\* C5 amended: for the logarithmic curve type the radius of the last sample,
\* once computed, is radius * radius_ratio ^ e with e = -nr_turns /
\* nr_points; when |nr_turns| <= nr_points, |e| <= 1 and, for radius_ratio >
\* 0, the radius lies between radius / radius_ratio and radius *
\* radius_ratio; it equals radius exactly when nr_turns = 0 or
\* radius_ratio = 1.
C5_Amended ==
    Log /\ LastSampleDone =>
        /\ IsScaled(LastExponent)
        /\ radius = SampleRadius(i)
        /\ RLe(RAbs(self.nr_turns), FromInt(self.nr_points)) =>
             /\ RLe(RAbs(LastExponent), One)
             /\ ~self.radius_ratio.zero => WithinOneStep
        /\ EqualsRadius <=>
             \/ self.nr_turns = Zero
             \/ ~self.radius_ratio.zero /\ self.radius_ratio.lg = Zero

C5_Witness ==
    /\ Log /\ LastSampleDone
    /\ self.nr_points = 4
    /\ self.nr_turns = FromInt(3)
    /\ self.radius_ratio = [zero |-> FALSE, lg |-> One]
    /\ radius.lg = Rat(-3, 4)

\* C6: linear curve type, nr_turns = 0, radius > linear_offset: the radius
\* of sample 0 is linear_offset, the radius is strictly increasing in the
\* sample index and strictly below radius at every sample.
C6_LinearRadius ==
    /\ Linear
    /\ self.nr_turns = Zero
    /\ RLt(self.linear_offset, self.radius)
    =>
    /\ \A k \in Processed :
         /\ SampleRadius(k).lg = Zero
         /\ SampleRadius(k).c =
              RAdd(RMul(Rat(k, self.nr_points),
                        RSub(self.radius, self.linear_offset)),
                   self.linear_offset)
         /\ k = 0 => SampleRadius(k).c = self.linear_offset
         /\ RLt(SampleRadius(k).c, self.radius)
         /\ \A m \in Processed :
              k < m => RLt(SampleRadius(k).c, SampleRadius(m).c)
    /\ i \in Processed => radius = SampleRadius(i)

C6_Witness ==
    /\ Linear /\ Ended
    /\ self.nr_turns = Zero
    /\ self.nr_points = 4
    /\ self.linear_offset = Rat(1, 2)
    /\ self.radius = FromInt(2)
    /\ SampleRadius(3).c = Rat(13, 8)

\* C7: for both curve types the width of sample k is outer_taper * k/n +
\* inner_taper * (1 - k/n): it is inner_taper at k = 0, lies between the two
\* tapers, moves monotonically from inner_taper toward outer_taper, and
\* never equals outer_taper when the tapers differ.
C7_Width ==
    Recognized =>
        /\ \A k \in Processed :
             /\ SampleWidth(k) =
                  RAdd(self.inner_taper,
                       RMul(Rat(k, self.nr_points),
                            RSub(self.outer_taper, self.inner_taper)))
             /\ k = 0 => SampleWidth(k) = self.inner_taper
             /\ RLe(RMin(self.inner_taper, self.outer_taper), SampleWidth(k))
             /\ RLe(SampleWidth(k), RMax(self.inner_taper, self.outer_taper))
             /\ self.inner_taper # self.outer_taper =>
                  SampleWidth(k) # self.outer_taper
             /\ \A m \in Processed :
                  k < m =>
                    /\ RLt(self.inner_taper, self.outer_taper) =>
                         RLt(SampleWidth(k), SampleWidth(m))
                    /\ RLt(self.outer_taper, self.inner_taper) =>
                         RLt(SampleWidth(m), SampleWidth(k))
                    /\ self.inner_taper = self.outer_taper =>
                         SampleWidth(m) = SampleWidth(k)
        /\ i \in Processed => width = SampleWidth(i)

C7_Witness ==
    /\ Log /\ Ended /\ status = "FINISHED"
    /\ self.nr_points = 4
    /\ self.inner_taper = Rat(1, 5)
    /\ self.outer_taper = One
    /\ SampleWidth(3) = Rat(4, 5)

\* C8: curve_type = linear, nr_points = 4, nr_turns = 1, radius = 2.0,
\* inner_taper = 0.2, outer_taper = 0.0, linear_offset = 0.0 yields 8
\* vertices and 3 faces, sample 0 radius 0.0, sample 3 radius 1.5, sample 0
\* width 0.2 and sample 3 width 0.05.
Scenario ==
    /\ Linear
    /\ self.nr_points = 4
    /\ self.nr_turns = One
    /\ self.radius = FromInt(2)
    /\ self.inner_taper = Rat(1, 5)
    /\ self.outer_taper = Zero
    /\ self.linear_offset = Zero

C8_Scenario ==
    Scenario /\ Ended =>
        /\ status = "FINISHED"
        /\ Len(vertices) = 8
        /\ Len(faces) = 3
        /\ SampleRadius(0) = [c |-> Zero, lg |-> Zero]
        /\ SampleRadius(3) = [c |-> Rat(3, 2), lg |-> Zero]
        /\ SampleWidth(0) = Rat(1, 5)
        /\ SampleWidth(3) = Rat(1, 20)
        /\ meshes = <<NewMesh(vertices, faces)>>

C8_Witness == Scenario /\ Ended /\ Len(vertices) = 8

\* C10: a linear run gives the same vertices, faces and outcome whatever
\* radius_ratio is, and a log run gives the same whatever linear_offset is:
\* the parameter of the other curve type is never read.
Outcome ==
    [vertices |-> vertices, faces |-> faces, status |-> status,
     raised |-> raised, meshes |-> meshes]

C10_InactiveParameter ==
    Ended =>
        /\ Linear =>
             \A rr \in RadiusRatioValues :
                 Generate([self EXCEPT !.radius_ratio = rr]) = Outcome
        /\ Log =>
             \A lo \in LinearOffsetValues :
                 Generate([self EXCEPT !.linear_offset = lo]) = Outcome

C10_Witness ==
    /\ Ended /\ Linear /\ status = "FINISHED"
    /\ self.radius_ratio.zero
    /\ self.nr_turns = One
    /\ self.nr_points = 4

=============================================================================
